---- MODULE Spec2Model ----
(***************************************************************************)
(* Model of boltkit/server/__init__.py: the Neo4j service topology         *)
(* (Neo4jMachineSpec, Neo4jMachine, Neo4jService, Neo4jStandaloneService   *)
(* and Neo4jClusterService) with its console commands add-core,            *)
(* add-replica, rm and rt, the routing cache and the spec pools.           *)
(*                                                                         *)
(* Python values are represented as follows.                               *)
(*   None (as a machine or list element)  the record None                  *)
(*   an optional list (self._routers ...) [isNone, items]                  *)
(*   a dict (self.machines)               a sequence of [spec, machine]    *)
(*                                        entries in insertion order       *)
(*   an object (Neo4jMachine)             a record with a unique id        *)
(*   a falsy argument (None or 0)         0                                *)
(*   a dict of settings (spec.config)     a function from keys to values   *)
(*   a thread of _for_each_machine        a record [target, machine, state]*)
(***************************************************************************)
EXTENDS Integers, Sequences, FiniteSets, TLC

VARIABLES
    pc,                          \* "new", "cluster", "standalone" or "ValueError"
    args,                        \* constructor arguments n_cores, n_replicas, bolt_port, http_port
    machines,                    \* self.machines
    free_core_machine_specs,     \* self.free_core_machine_specs
    free_replica_machine_specs,  \* self.free_replica_machine_specs
    _routers, _readers, _writers, _ttl,   \* the routing cache
    network,                     \* self.network: "None" or "created"
    n_machines,                  \* number of Neo4jMachine objects created so far
    ready,                       \* ready[id]: the ready attribute of machine object id
    console_args,                \* self.console_args of the last command
    outcome,                     \* what the last operation wrote, raised and found
    pulled,                      \* whether the last rt command ran the routing query, and its rows
    n_commands,                  \* number of operations performed
    config,                      \* spec.config of every machine spec the service has constructed
    call,                        \* where the thread calling start() or stop() is
    threads,                     \* the list threads of the _for_each_machine call in progress
    awaits,                      \* per machine, its await_started call: progress, executing thread, probe
    containers,                  \* per machine, its container as start() and stop() have left it
    net_ops,                     \* the create and remove calls made on the network
    provision                    \* the docker calls of the Neo4jMachine constructions made step by step

vars == <<pc, args, machines, free_core_machine_specs, free_replica_machine_specs,
          _routers, _readers, _writers, _ttl, network, n_machines, ready,
          console_args, outcome, pulled, n_commands, config,
          call, threads, awaits, containers, net_ops, provision>>

routing == <<_routers, _readers, _writers, _ttl>>
pools == <<machines, free_core_machine_specs, free_replica_machine_specs>>
calls == <<call, threads, awaits, containers, net_ops, provision>>

-----------------------------------------------------------------------------
(* Bounds of the model *)

\* operations performed on one service after construction
MaxCommands == 2
\* which container operation of one command may raise (0: none raises)
MaxFailAt == 2
\* the bolt_port and http_port arguments tried are 0 (absent) and PortLow..PortLow + PortSpan
PortLow == 90
PortSpan == 11

-----------------------------------------------------------------------------
(* Program constants *)

min_cores == 3
max_cores == 7
min_replicas == 0
max_replicas == 10
cluster_default_bolt_port == 17601
cluster_default_http_port == 17401
standalone_default_bolt_port == 7687
standalone_default_http_port == 7474

\* self.name
service_name == "fbe340d"

None == [none |-> TRUE]
NoList == [isNone |-> TRUE, items |-> <<>>]
List(s) == [isNone |-> FALSE, items |-> s]
NoTtl == [isNone |-> TRUE, value |-> 0]
Ttl(v) == [isNone |-> FALSE, value |-> v]

\* Python's `x or d` on integers and None
PyOr(x, d) == IF x = 0 THEN d ELSE x

\* chr(n) for the code points the names are taken from
chr(n) ==
    IF n \in 48..64
    THEN <<"0", "1", "2", "3", "4", "5", "6", "7", "8", "9",
           ":", ";", "<", "=", ">", "?", "@">>[n - 47]
    ELSE <<"a", "b", "c", "d", "e", "f", "g", "h", "i", "j", "k", "l", "m">>[n - 96]

Range(s) == {s[i] : i \in DOMAIN s}

-----------------------------------------------------------------------------
(* Neo4jMachineSpec *)

Neo4jMachineSpec(kind, name, svc, bolt_port, http_port) ==
    [kind |-> kind, name |-> name, service_name |-> svc,
     bolt_port |-> bolt_port, http_port |-> http_port]

fq_name(spec) == spec.name \o "." \o spec.service_name

discovery_address(spec) == spec.name \o "." \o spec.service_name \o ":5000"

bolt_address(spec) == <<"localhost", spec.bolt_port>>

isCore(spec) == spec.kind = "CORE"
isReplica(spec) == spec.kind = "READ_REPLICA"

\* range(base_port, base_port + count) as a sequence
_port_range(base_port, count) == [i \in 1..count |-> base_port + i - 1]

\* range.stop
range_stop(base_port, count) == base_port + count

\* ceil(stop / 10) * 10, and the same with floor for ceil
ReplicaBaseFloor(stop) == (stop \div 10) * 10
ReplicaBase(stop) == ((stop + 9) \div 10) * 10

\* the list comprehension building self.free_core_machine_specs
CoreSpecs(svc, bolt_base, http_base, n) ==
    [i \in 1..n |->
        Neo4jMachineSpec("CORE", chr(97 + i - 1), svc,
                         _port_range(bolt_base, n)[i],
                         _port_range(http_base, n)[i])]

\* the replica ranges placed after the core base instead of after the core range
ReplicaSpecsAtCoreBase(svc, bolt_base, http_base, nc, nr) ==
    [i \in 1..nr |->
        Neo4jMachineSpec("READ_REPLICA", chr(48 + i - 1), svc,
                         _port_range(ReplicaBase(bolt_base), nr)[i],
                         _port_range(ReplicaBase(http_base), nr)[i])]

\* the list comprehension building self.free_replica_machine_specs
ReplicaSpecs(svc, bolt_base, http_base, nc, nr) ==
    [i \in 1..nr |->
        Neo4jMachineSpec("READ_REPLICA", chr(48 + i - 1), svc,
                         _port_range(ReplicaBase(range_stop(bolt_base, nc)), nr)[i],
                         _port_range(ReplicaBase(range_stop(http_base, nc)), nr)[i])]

-----------------------------------------------------------------------------
(* spec.config: a dict is a function from its keys to its values.  The     *)
(* config of a spec is kept in the variable config, under the spec.        *)

\* {} and, alike in every test the code makes of it, the argument config=None
Dict0 == [k \in {} |-> ""]

\* c.update(o) and dict(c, **o)
update(c, o) ==
    [k \in DOMAIN c \cup DOMAIN o |-> IF k \in DOMAIN o THEN o[k] ELSE c[k]]

\* Neo4jMachineSpec.config, the class attribute
base_config ==
    [k \in {"dbms.backup.enabled", "dbms.memory.heap.initial_size",
            "dbms.memory.heap.max_size", "dbms.memory.pagecache.size",
            "dbms.transaction.bookmark_ready_timeout"} |->
        CASE k = "dbms.backup.enabled" -> "false"
          [] k = "dbms.memory.heap.initial_size" -> "300m"
          [] k = "dbms.memory.heap.max_size" -> "500m"
          [] k = "dbms.memory.pagecache.size" -> "50m"
          [] k = "dbms.transaction.bookmark_ready_timeout" -> "5s"]

advertised_address == "dbms.connector.bolt.advertised_address"
initial_discovery_members == "causal_clustering.initial_discovery_members"

\* "localhost:{}".format(self.bolt_port)
localhost(bolt_port) == "localhost:" \o ToString(bolt_port)

\* self.config after Neo4jMachineSpec.__init__ with the argument config=cfg
Neo4jMachineSpec_config(bolt_port, cfg) ==
    LET own == update(base_config, advertised_address :> localhost(bolt_port))
    IN  IF cfg # Dict0 THEN update(own, cfg) ELSE own

\* self.config after Neo4jCoreMachineSpec.__init__
Neo4jCoreMachineSpec_config(bolt_port, cfg) ==
    Neo4jMachineSpec_config(bolt_port, update(cfg, "dbms.mode" :> "CORE"))

\* self.config after Neo4jReplicaMachineSpec.__init__
Neo4jReplicaMachineSpec_config(bolt_port, cfg) ==
    Neo4jMachineSpec_config(bolt_port, update(cfg, "dbms.mode" :> "READ_REPLICA"))

\* ",".join(list)
RECURSIVE join(_)
join(list) ==
    IF list = <<>> THEN ""
    ELSE IF Len(list) = 1 THEN list[1]
    ELSE list[1] \o "," \o join(Tail(list))

-----------------------------------------------------------------------------
(* Neo4jMachine *)

Neo4jMachine(spec, id) == [id |-> id, spec |-> spec]

address(machine) == <<"localhost", machine.spec.bolt_port>>

\* the container docker.containers.create returns; busy names the machine
\* method, start or stop, that is executing on it
Container0 == [status |-> "created", starts |-> 0, stops |-> 0, removes |-> 0, busy |-> ""]

\* no await_started call made on the machine yet
NoAwait == [state |-> "", by |-> "", probe |-> ""]

\* no Neo4jMachine construction in progress, none recorded
NoProvision == [at |-> "", log |-> <<>>]

\* the calling thread outside start() and stop()
Idle == [op |-> "", at |-> "idle", i |-> 0, timeout |-> FALSE]

-----------------------------------------------------------------------------
(* dict operations on self.machines *)

HasKey(d, k) == \E i \in DOMAIN d : d[i].spec = k

DictGet(d, k) == d[CHOOSE i \in DOMAIN d : d[i].spec = k].machine

DictSet(d, k, v) ==
    IF HasKey(d, k)
    THEN [i \in DOMAIN d |-> IF d[i].spec = k THEN [spec |-> k, machine |-> v] ELSE d[i]]
    ELSE Append(d, [spec |-> k, machine |-> v])

DictDel(d, k) == SelectSeq(d, LAMBDA e : e.spec # k)

Keys(d) == [i \in DOMAIN d |-> d[i].spec]

\* the cores and replicas properties
cores_of(d) == SelectSeq(d, LAMBDA e : isCore(e.spec))
replicas_of(d) == SelectSeq(d, LAMBDA e : isReplica(e.spec))
cores == [i \in DOMAIN cores_of(machines) |-> cores_of(machines)[i].machine]
replicas == [i \in DOMAIN replicas_of(machines) |-> replicas_of(machines)[i].machine]

-----------------------------------------------------------------------------
(* _boot_machines: every slot whose machine is None gets a Neo4jMachine.   *)
(* The fail_at-th container creation of the call raises (0: none does).    *)

NoneRank(d, i) == Cardinality({j \in 1..i : d[j].machine = None})

Created(d, i, fail_at) ==
    d[i].machine = None /\ (fail_at = 0 \/ NoneRank(d, i) < fail_at)

_boot_machines(d, n, fail_at) ==
    [machines |->
        [i \in DOMAIN d |->
            IF Created(d, i, fail_at)
            THEN [spec |-> d[i].spec, machine |-> Neo4jMachine(d[i].spec, n + NoneRank(d, i))]
            ELSE d[i]],
     n_machines |-> n + Cardinality({i \in DOMAIN d : Created(d, i, fail_at)}),
     raised |-> IF fail_at # 0 /\ NoneRank(d, Len(d)) >= fail_at THEN "DockerException" ELSE ""]

\* the list discovery_addresses of _boot_machines
discovery_addresses(d) ==
    LET core_specs == SelectSeq(Keys(d), isCore)
    IN  [i \in DOMAIN core_specs |-> discovery_address(core_specs[i])]

\* every slot taken as one to update, with a machine or without
Stamped_EverySlot(d, i, fail_at) == TRUE

\* slot i is one whose spec.config _boot_machines updates: the slots without
\* a machine, up to and including the one whose container creation raises
Stamped(d, i, fail_at) ==
    d[i].machine = None /\ (fail_at = 0 \/ NoneRank(d, i) <= fail_at)

\* the configs cfg of the specs after _boot_machines
_boot_config(d, cfg, fail_at) ==
    [spec \in DOMAIN cfg |->
        IF \E i \in DOMAIN d : d[i].spec = spec /\ Stamped(d, i, fail_at)
        THEN update(cfg[spec], initial_discovery_members :> join(discovery_addresses(d)))
        ELSE cfg[spec]]

-----------------------------------------------------------------------------
(* Construction: Neo4jService.__new__ and the two __init__ methods.        *)
(* a is the record of constructor arguments; a.max_cores and               *)
(* a.max_replicas are the class attributes read through self.              *)

Neo4jStandaloneService(a) ==
    LET spec == Neo4jMachineSpec("SINGLE", "a", service_name,
                                 PyOr(a.bolt_port, standalone_default_bolt_port),
                                 PyOr(a.http_port, standalone_default_http_port))
    IN  [pc |-> "standalone",
         machines |-> <<[spec |-> spec, machine |-> Neo4jMachine(spec, 1)]>>,
         free_core_machine_specs |-> <<>>,
         free_replica_machine_specs |-> <<>>,
         n_machines |-> 1,
         config |-> spec :> Neo4jMachineSpec_config(spec.bolt_port, a.config)]

Invalid ==
    [pc |-> "ValueError", machines |-> <<>>, free_core_machine_specs |-> <<>>,
     free_replica_machine_specs |-> <<>>, n_machines |-> 0, config |-> Dict0]

\* the specs left in a pool after the loop of n pop(0) calls, and the same with pop() for pop(0)
PopLast(specs, n) == SubSeq(specs, 1, Len(specs) - n)
PopFirst(specs, n) == SubSeq(specs, n + 1, Len(specs))

Neo4jClusterService(a) ==
    LET n_cores == PyOr(a.n_cores, min_cores)
        n_replicas == PyOr(a.n_replicas, min_replicas)
        all_cores == CoreSpecs(service_name,
                               PyOr(a.bolt_port, cluster_default_bolt_port),
                               PyOr(a.http_port, cluster_default_http_port),
                               a.max_cores)
        all_replicas == ReplicaSpecs(service_name,
                                     PyOr(a.bolt_port, cluster_default_bolt_port),
                                     PyOr(a.http_port, cluster_default_http_port),
                                     a.max_cores, a.max_replicas)
        reserved == [i \in 1..(n_cores + n_replicas) |->
                        [spec |-> IF i <= n_cores THEN all_cores[i]
                                  ELSE all_replicas[i - n_cores],
                         machine |-> None]]
        booted == _boot_machines(reserved, 0, 0)
        core_config == update(a.config,
            [k \in {"causal_clustering.minimum_core_cluster_size_at_formation",
                    "causal_clustering.minimum_core_cluster_size_at_runtime"} |->
                IF k = "causal_clustering.minimum_core_cluster_size_at_formation"
                THEN PyOr(n_cores, min_cores) ELSE min_cores])
        constructed ==
            [spec \in Range(all_cores) \cup Range(all_replicas) |->
                IF isCore(spec) THEN Neo4jCoreMachineSpec_config(spec.bolt_port, core_config)
                ELSE Neo4jReplicaMachineSpec_config(spec.bolt_port, a.config)]
    IN  IF ~(min_cores <= n_cores /\ n_cores <= a.max_cores) THEN Invalid
        ELSE IF ~(min_replicas <= n_replicas /\ n_replicas <= a.max_replicas) THEN Invalid
        ELSE [pc |-> "cluster",
              machines |-> booted.machines,
              free_core_machine_specs |-> PopFirst(all_cores, n_cores),
              free_replica_machine_specs |-> PopFirst(all_replicas, n_replicas),
              n_machines |-> booted.n_machines,
              config |-> _boot_config(reserved, constructed, 0)]

\* __new__ choosing the cluster class only for a core count within the permitted range
Neo4jService_ClusterOnlyInRange(a) ==
    IF a.n_cores \in min_cores..a.max_cores THEN Neo4jClusterService(a)
    ELSE Neo4jStandaloneService(a)

\* Neo4jService.__new__ chooses the class by the truth of n_cores
Neo4jService(a) ==
    IF a.n_cores # 0 THEN Neo4jClusterService(a) ELSE Neo4jStandaloneService(a)

NoQuery == [ran |-> FALSE, records |-> <<>>]

NoOutcome == [op |-> "", raised |-> "", written |-> "", found |-> 0]

\* the state of a service object s just constructed from arguments a
Constructed(a, s) ==
    /\ args = a
    /\ pc = s.pc
    /\ machines = s.machines
    /\ free_core_machine_specs = s.free_core_machine_specs
    /\ free_replica_machine_specs = s.free_replica_machine_specs
    /\ n_machines = s.n_machines
    /\ ready = [i \in 1..s.n_machines |-> 0]
    /\ _routers = NoList /\ _readers = NoList /\ _writers = NoList /\ _ttl = NoTtl
    /\ network = "None"
    /\ console_args = <<>>
    /\ outcome = NoOutcome
    /\ pulled = NoQuery
    /\ n_commands = 0
    /\ config = s.config
    /\ call = Idle /\ threads = <<>> /\ net_ops = [create |-> 0, remove |-> 0]
    /\ provision = NoProvision
    /\ containers = [i \in 1..s.n_machines |-> Container0]
    /\ awaits = [i \in 1..s.n_machines |-> NoAwait]

Args(nc, nr, bp, hp, mc, mr) ==
    [n_cores |-> nc, n_replicas |-> nr, bolt_port |-> bp, http_port |-> hp,
     max_cores |-> mc, max_replicas |-> mr, config |-> Dict0]

PortInputs == {0} \cup (PortLow..(PortLow + PortSpan))

\* before construction
Unconstructed(a) ==
    /\ args = a
    /\ pc = "new"
    /\ machines = <<>>
    /\ free_core_machine_specs = <<>>
    /\ free_replica_machine_specs = <<>>
    /\ n_machines = 0
    /\ ready = <<>>
    /\ _routers = NoList /\ _readers = NoList /\ _writers = NoList /\ _ttl = NoTtl
    /\ network = "None"
    /\ console_args = <<>>
    /\ outcome = NoOutcome
    /\ pulled = NoQuery
    /\ n_commands = 0
    /\ config = Dict0
    /\ call = Idle /\ threads = <<>> /\ net_ops = [create |-> 0, remove |-> 0]
    /\ provision = NoProvision
    /\ containers = <<>> /\ awaits = <<>>

\* the constructor call Neo4jService(n_cores=..., n_replicas=..., bolt_port=..., http_port=...)
New ==
    /\ pc = "new"
    /\ LET s == Neo4jService(args)
       IN  /\ pc' = s.pc
           /\ machines' = s.machines
           /\ free_core_machine_specs' = s.free_core_machine_specs
           /\ free_replica_machine_specs' = s.free_replica_machine_specs
           /\ n_machines' = s.n_machines
           /\ ready' = [i \in 1..s.n_machines |-> 0]
           /\ config' = s.config
           /\ containers' = [i \in 1..s.n_machines |-> Container0]
           /\ awaits' = [i \in 1..s.n_machines |-> NoAwait]
    /\ UNCHANGED <<args, routing, network, console_args, outcome, pulled, n_commands,
                   call, threads, net_ops, provision>>

\* construction with every requested shape, default and explicit ports
InitNew ==
    \E nc \in (-1)..(max_cores + 1), nr \in (-1)..(max_replicas + 1),
       bp \in {0, PortLow}, hp \in {0, PortLow + PortSpan} :
        Unconstructed(Args(nc, nr, bp, hp, max_cores, max_replicas))

SpecNew == InitNew /\ [][New]_vars

\* the port and name scheme for every base port and every ceiling
InitPorts ==
    \E bp \in PortInputs, hp \in PortInputs,
       mc \in min_cores..max_cores, mr \in min_replicas..max_replicas :
        Unconstructed(Args(min_cores, min_replicas, bp, hp, mc, mr))

SpecPorts == InitPorts /\ [][New]_vars

\* the config arguments tried: every mapping of up to three keys, one of them
\* the advertised address and one a key of the base config
OverrideKeys == {advertised_address, "dbms.memory.heap.max_size", "dbms.default_listen_address"}
OverrideValues == {"1g", "example.com:9999"}
Overrides == UNION {[keys -> OverrideValues] : keys \in SUBSET OverrideKeys}

\* construction of a standalone service and of a cluster with every config argument
InitConfig ==
    \E nc \in {0, min_cores}, bp \in {0, PortLow}, o \in Overrides :
        Unconstructed([Args(nc, min_replicas + 1, bp, 0, max_cores, max_replicas)
                          EXCEPT !.config = o])

SpecConfig == InitConfig /\ [][New]_vars

-----------------------------------------------------------------------------
(* _boot_machines step by step: Neo4jMachine.__init__ with its calls of    *)
(* docker.containers.create and docker.images.pull.  provision.at is the   *)
(* call the construction in progress makes next, provision.log has one     *)
(* record per construction begun: the calls made and what they returned.   *)

\* what docker.containers.create does: returns, or raises one of these
CreateResults == {"ok", "ImageNotFound", "APIError"}

\* what docker.images.pull does
PullResults == {"ok", "APIError"}

\* the except clause catching ImageNotFound raised by the retried creation too
after_create_CatchOnRetry(at, r) ==
    IF r = "ok" THEN "done" ELSE IF r = "ImageNotFound" THEN "pull" ELSE "raise"

\* the try statement around create_container: the first creation is inside
\* the try, the retried one inside the except clause, where nothing is caught
after_create(at, r) ==
    IF r = "ok" THEN "done"
    ELSE IF at = "create" /\ r = "ImageNotFound" THEN "pull"
    ELSE "raise"

\* the position of the first slot of self.machines without a machine
FirstNone == CHOOSE i \in DOMAIN machines :
                machines[i].machine = None /\ NoneRank(machines, i) = 1

LastLog == provision.log[Len(provision.log)]

\* the for loop of _boot_machines reaches a slot without a machine: its
\* spec.config is updated and Neo4jMachine.__init__ is entered
Neo4jMachine_init ==
    /\ pc = "boot"
    /\ provision.at = ""
    /\ LET spec == machines[FirstNone].spec
       IN  /\ config' = [config EXCEPT ![spec] =
                 update(@, initial_discovery_members :> join(discovery_addresses(machines)))]
           /\ provision' = [at |-> "create",
                            log |-> Append(provision.log,
                                           [name |-> spec.name, creates |-> 0, pulls |-> 0,
                                            first |-> "", pull |-> "", second |-> ""])]
    /\ UNCHANGED <<pc, args, pools, routing, network, n_machines, ready, console_args,
                   outcome, pulled, n_commands, call, threads, awaits, containers, net_ops>>

\* create_container(self.image) returns or raises r: the first creation
\* and the retried one.  With the container the Machine is made and the
\* for loop goes on; an exception that is not caught leaves the constructor.
create_container(r) ==
    /\ pc = "boot"
    /\ provision.at \in {"create", "retry"}
    /\ LET then == after_create(provision.at, r)
           entry == IF provision.at = "create"
                    THEN [LastLog EXCEPT !.creates = @ + 1, !.first = r]
                    ELSE [LastLog EXCEPT !.creates = @ + 1, !.second = r]
           made == [machines EXCEPT ![FirstNone].machine =
                        Neo4jMachine(machines[FirstNone].spec, n_machines + 1)]
       IN  /\ provision' = [at |-> IF then = "pull" THEN "pull" ELSE "",
                            log |-> [provision.log EXCEPT ![Len(provision.log)] = entry]]
           /\ IF then = "done"
              THEN /\ machines' = made
                   /\ n_machines' = n_machines + 1
                   /\ ready' = Append(ready, 0)
                   /\ containers' = Append(containers, Container0)
                   /\ awaits' = Append(awaits, NoAwait)
                   /\ pc' = IF \E i \in DOMAIN made : made[i].machine = None
                            THEN "boot" ELSE "cluster"
              ELSE /\ pc' = IF then = "raise" THEN r ELSE pc
                   /\ UNCHANGED <<machines, n_machines, ready, containers, awaits>>
    /\ UNCHANGED <<args, free_core_machine_specs, free_replica_machine_specs, routing,
                   network, console_args, outcome, pulled, n_commands, config,
                   call, threads, net_ops>>

\* self.docker.images.pull(self.image) returns or raises r
images_pull(r) ==
    /\ pc = "boot"
    /\ provision.at = "pull"
    /\ provision' = [at |-> IF r = "ok" THEN "retry" ELSE "",
                     log |-> [provision.log EXCEPT ![Len(provision.log)] =
                                [LastLog EXCEPT !.pulls = @ + 1, !.pull = r]]]
    /\ pc' = IF r = "ok" THEN pc ELSE r
    /\ UNCHANGED <<args, pools, routing, network, n_machines, ready, console_args,
                   outcome, pulled, n_commands, config, call, threads, awaits,
                   containers, net_ops>>

\* the constructor of service s at the call of _boot_machines: the slots
\* are reserved, no spec.config has its discovery members yet
Reserved(a, s) ==
    /\ args = a
    /\ pc = "boot"
    /\ machines = [i \in DOMAIN s.machines |-> [spec |-> s.machines[i].spec, machine |-> None]]
    /\ free_core_machine_specs = s.free_core_machine_specs
    /\ free_replica_machine_specs = s.free_replica_machine_specs
    /\ n_machines = 0
    /\ ready = <<>>
    /\ _routers = NoList /\ _readers = NoList /\ _writers = NoList /\ _ttl = NoTtl
    /\ network = "None"
    /\ console_args = <<>>
    /\ outcome = NoOutcome
    /\ pulled = NoQuery
    /\ n_commands = 0
    /\ config = [spec \in DOMAIN s.config |->
                    [k \in DOMAIN s.config[spec] \ {initial_discovery_members} |->
                        s.config[spec][k]]]
    /\ call = Idle /\ threads = <<>> /\ net_ops = [create |-> 0, remove |-> 0]
    /\ containers = <<>> /\ awaits = <<>>
    /\ provision = NoProvision

\* clusters of three cores with no replica and with two
InitBoot ==
    \E nr \in {min_replicas, min_replicas + 2} :
        LET a == Args(min_cores, nr, 0, 0, max_cores, max_replicas)
        IN  Reserved(a, Neo4jService(a))

NextBoot ==
    \/ Neo4jMachine_init
    \/ \E r \in CreateResults : create_container(r)
    \/ \E r \in PullResults : images_pull(r)

SpecBoot == InitBoot /\ [][NextBoot]_vars

-----------------------------------------------------------------------------
(* Neo4jMachine.await_started: the value of ready afterwards.  probe is    *)
(* what the container and the liveness probe do:                           *)
(*   "ok"           status running, ping succeeds                          *)
(*   "exited"       status running, ping raises OSError, container exited  *)
(*   "unavailable"  status running, ping raises OSError, still running     *)
(*   "not_running"  status is not running                                  *)

Probes == {"ok", "exited", "unavailable", "not_running"}

await_started(old_ready, probe) ==
    CASE probe = "ok" -> 1
      [] probe = "exited" -> -1
      [] OTHER -> old_ready

-----------------------------------------------------------------------------
(* The routers, readers and writers properties.  A read either returns a   *)
(* list or raises.                                                         *)

Return(v) == [raised |-> "", value |-> v]
Raise(e) == [raised |-> e, value |-> <<>>]

MachineValues(d) == [i \in DOMAIN d |-> d[i].machine]

\* Neo4jService.routers, overridden by Neo4jClusterService.routers
routers ==
    IF pc = "cluster" THEN Return(cores)
    ELSE IF ~_routers.isNone /\ _routers.items # <<>> THEN Return(_routers.items)
    ELSE Return(MachineValues(machines))

\* list(self._readers): list(None) raises TypeError
readers == IF _readers.isNone THEN Raise("TypeError") ELSE Return(_readers.items)

writers == IF _writers.isNone THEN Raise("TypeError") ELSE Return(_writers.items)

\* x in list
In(x, list) == \E i \in DOMAIN list : list[i] = x

-----------------------------------------------------------------------------
(* Neo4jService.start(timeout=300), as __enter__ calls it.  Every machine  *)
(* answers the probe, except the one at position bad (0: none), which      *)
(* behaves as probe says.                                                  *)

ReadyAfterStart(bad, probe) ==
    [id \in DOMAIN ready |->
        IF \E i \in DOMAIN machines : machines[i].machine # None /\ machines[i].machine.id = id
        THEN await_started(ready[id],
                           IF bad # 0 /\ bad <= Len(machines) /\ machines[bad].machine # None
                              /\ machines[bad].machine.id = id
                           THEN probe ELSE "ok")
        ELSE ready[id]]

\* all(...) taken as any(...)
AllReady_Any(d, r) == \E i \in DOMAIN d : r[d[i].machine.id] = 1

\* all(machine.ready == 1 for spec, machine in self.machines.items())
AllReady(d, r) == \A i \in DOMAIN d : r[d[i].machine.id] = 1

\* the containers after the fan-out of machine.start: the for loop starts a
\* thread per machine up to the first slot without one, where f(machine) raises
StartedContainers ==
    [id \in DOMAIN containers |->
        IF \E i \in DOMAIN machines :
              /\ machines[i].machine # None /\ machines[i].machine.id = id
              /\ \A j \in 1..i : machines[j].machine # None
        THEN [containers[id] EXCEPT !.starts = @ + 1, !.status = "running"]
        ELSE containers[id]]

start(bad, probe) ==
    /\ pc = "cluster"
    /\ network = "None"
    /\ network' = "created"
    /\ net_ops' = [net_ops EXCEPT !.create = @ + 1]
    /\ containers' = StartedContainers
    /\ IF In(None, MachineValues(machines))
       THEN /\ outcome' = [op |-> "start", raised |-> "AttributeError: start", written |-> "", found |-> 0]
            /\ UNCHANGED ready
       ELSE /\ ready' = ReadyAfterStart(bad, probe)
            /\ outcome' = [op |-> "start",
                           raised |-> IF AllReady(machines, ready') THEN "" ELSE "OSError",
                           written |-> "", found |-> 0]
    /\ UNCHANGED <<pc, args, pools, routing, n_machines, console_args, pulled, n_commands, config,
                   call, threads, awaits, provision>>

-----------------------------------------------------------------------------
(* console_add_core and console_add_replica *)

NewReady(old_n, new_n) == ready \o [i \in 1..(new_n - old_n) |-> 0]

\* the containers of the Machines made by _boot_machines, created and not started
NewContainers(old_n, new_n) == containers \o [i \in 1..(new_n - old_n) |-> Container0]

NewAwaits(old_n, new_n) == awaits \o [i \in 1..(new_n - old_n) |-> NoAwait]

\* Neo4jMachine.start on the container of machine id
Neo4jMachine_start(cs, id) ==
    [cs EXCEPT ![id] = [@ EXCEPT !.starts = @ + 1, !.status = "running"]]

console_add_core(fail_at, probe) ==
    /\ pc = "cluster"
    /\ n_commands < MaxCommands
    /\ n_commands' = n_commands + 1
    /\ console_args' = <<"add-core">>
    /\ IF Len(cores) < args.max_cores
       THEN IF free_core_machine_specs = <<>>
            THEN /\ outcome' = [op |-> "add-core", raised |-> "IndexError", written |-> "", found |-> 0]
                 /\ UNCHANGED <<pools, n_machines, ready, config, containers, awaits>>
            ELSE LET spec == Head(free_core_machine_specs)
                     booted == _boot_machines(DictSet(machines, spec, None), n_machines, fail_at)
                     r == NewReady(n_machines, booted.n_machines)
                 IN  /\ free_core_machine_specs' = Tail(free_core_machine_specs)
                     /\ machines' = booted.machines
                     /\ n_machines' = booted.n_machines
                     /\ config' = _boot_config(DictSet(machines, spec, None), config, fail_at)
                     /\ ready' = IF booted.raised = ""
                                 THEN [r EXCEPT ![DictGet(booted.machines, spec).id] = await_started(@, probe)]
                                 ELSE r
                     /\ containers' =
                           IF booted.raised = ""
                           THEN Neo4jMachine_start(NewContainers(n_machines, booted.n_machines),
                                                   DictGet(booted.machines, spec).id)
                           ELSE NewContainers(n_machines, booted.n_machines)
                     /\ awaits' = NewAwaits(n_machines, booted.n_machines)
                     /\ outcome' = [op |-> "add-core", raised |-> booted.raised,
                                    written |-> IF booted.raised = "" THEN "Added core server" ELSE "",
                                    found |-> 0]
       ELSE /\ outcome' = [op |-> "add-core", raised |-> "",
                           written |-> "A maximum of cores is permitted", found |-> 0]
            /\ UNCHANGED <<pools, n_machines, ready, config, containers, awaits>>
    /\ UNCHANGED <<pc, args, free_replica_machine_specs, routing, network, pulled, call, threads, net_ops, provision>>

console_add_replica(fail_at, probe) ==
    /\ pc = "cluster"
    /\ n_commands < MaxCommands
    /\ n_commands' = n_commands + 1
    /\ console_args' = <<"add-replica">>
    /\ IF Len(replicas) < args.max_replicas
       THEN IF free_replica_machine_specs = <<>>
            THEN /\ outcome' = [op |-> "add-replica", raised |-> "IndexError", written |-> "", found |-> 0]
                 /\ UNCHANGED <<pools, n_machines, ready, config, containers, awaits>>
            ELSE LET spec == Head(free_replica_machine_specs)
                     booted == _boot_machines(DictSet(machines, spec, None), n_machines, fail_at)
                     r == NewReady(n_machines, booted.n_machines)
                 IN  /\ free_replica_machine_specs' = Tail(free_replica_machine_specs)
                     /\ machines' = booted.machines
                     /\ n_machines' = booted.n_machines
                     /\ config' = _boot_config(DictSet(machines, spec, None), config, fail_at)
                     /\ ready' = IF booted.raised = ""
                                 THEN [r EXCEPT ![DictGet(booted.machines, spec).id] = await_started(@, probe)]
                                 ELSE r
                     /\ containers' =
                           IF booted.raised = ""
                           THEN Neo4jMachine_start(NewContainers(n_machines, booted.n_machines),
                                                   DictGet(booted.machines, spec).id)
                           ELSE NewContainers(n_machines, booted.n_machines)
                     /\ awaits' = NewAwaits(n_machines, booted.n_machines)
                     /\ outcome' = [op |-> "add-replica", raised |-> booted.raised,
                                    written |-> IF booted.raised = "" THEN "Added replica server" ELSE "",
                                    found |-> 0]
       ELSE /\ outcome' = [op |-> "add-replica", raised |-> "",
                           written |-> "A maximum of replicas is permitted", found |-> 0]
            /\ UNCHANGED <<pools, n_machines, ready, config, containers, awaits>>
    /\ UNCHANGED <<pc, args, free_core_machine_specs, routing, network, pulled, call, threads, net_ops, provision>>

-----------------------------------------------------------------------------
(* _stop_machine and console_remove.  st is the part of the service that   *)
(* the rm command changes; stop_raises says whether the container's stop   *)
(* raises.                                                                 *)

\* Neo4jMachine.stop on the container of machine id: container.stop(), and
\* when that returns container.remove(force=True)
Neo4jMachine_stop(cs, id, stop_raises) ==
    [cs EXCEPT ![id] = IF stop_raises
                       THEN [@ EXCEPT !.stops = @ + 1]
                       ELSE [@ EXCEPT !.stops = @ + 1, !.removes = @ + 1,
                                      !.status = "removed"]]

\* _stop_machine without the del self.machines[spec]
_stop_machine_KeepsEntry(st, spec, stop_raises) ==
    LET machine == DictGet(st.machines, spec)
        stopped == [st EXCEPT !.containers = Neo4jMachine_stop(@, machine.id, stop_raises)]
    IN  IF machine = None THEN [st EXCEPT !.raised = "AttributeError: stop"]
        ELSE IF stop_raises THEN [stopped EXCEPT !.raised = "DockerException"]
        ELSE IF isCore(spec)
             THEN [stopped EXCEPT !.free_core_machine_specs = Append(@, spec)]
        ELSE IF isReplica(spec)
             THEN [stopped EXCEPT !.free_replica_machine_specs = Append(@, spec)]
        ELSE stopped

_stop_machine(st, spec, stop_raises) ==
    LET machine == DictGet(st.machines, spec)
        deleted == [st EXCEPT !.machines = DictDel(st.machines, spec)]
        stopped == [deleted EXCEPT !.containers = Neo4jMachine_stop(@, machine.id, stop_raises)]
    IN  IF machine = None THEN [deleted EXCEPT !.raised = "AttributeError: stop"]
        ELSE IF stop_raises THEN [stopped EXCEPT !.raised = "DockerException"]
        ELSE IF isCore(spec)
             THEN [stopped EXCEPT !.free_core_machine_specs = Append(@, spec)]
        ELSE IF isReplica(spec)
             THEN [stopped EXCEPT !.free_replica_machine_specs = Append(@, spec)]
        ELSE stopped

\* the condition without the tests for an absent cache, an absent cache matching every machine
Matches_AbsentMatchesAll(name, spec, machine) ==
    \/ name = "r" /\ (_readers.isNone \/ In(machine, _readers.items))
    \/ name = "w" /\ (_writers.isNone \/ In(machine, _writers.items))
    \/ name \in {spec.name, fq_name(spec)}

\* the condition of the if / elif chain of console_remove
Matches(name, spec, machine) ==
    \/ name = "r" /\ ~_readers.isNone /\ In(machine, _readers.items)
    \/ name = "w" /\ ~_writers.isNone /\ In(machine, _writers.items)
    \/ name \in {spec.name, fq_name(spec)}

\* the number of machines the command rm name stops when no stop raises
MatchCount(name) ==
    Cardinality({i \in DOMAIN machines : Matches(name, machines[i].spec, machines[i].machine)})

\* the for loop of console_remove over items, the rest of list(self.machines.items());
\* stops is the number of container stops issued so far
RECURSIVE RemoveLoop(_, _, _, _, _)
RemoveLoop(st, items, name, stops, fail_at) ==
    IF items = <<>> \/ st.raised # "" THEN st
    ELSE IF Matches(name, Head(items).spec, Head(items).machine)
    THEN LET after == _stop_machine(st, Head(items).spec, stops + 1 = fail_at)
         IN  RemoveLoop(IF after.raised = "" THEN [after EXCEPT !.found = @ + 1] ELSE after,
                        Tail(items), name, stops + 1, fail_at)
    ELSE RemoveLoop(st, Tail(items), name, stops, fail_at)

Removed(name, fail_at) ==
    RemoveLoop([machines |-> machines,
                free_core_machine_specs |-> free_core_machine_specs,
                free_replica_machine_specs |-> free_replica_machine_specs,
                containers |-> containers,
                found |-> 0, raised |-> ""],
               machines, name, 0, fail_at)

console_remove(name, fail_at) ==
    /\ pc = "cluster"
    /\ n_commands < MaxCommands
    /\ n_commands' = n_commands + 1
    /\ console_args' = <<"rm", name>>
    /\ LET st == Removed(name, fail_at)
       IN  /\ machines' = st.machines
           /\ free_core_machine_specs' = st.free_core_machine_specs
           /\ free_replica_machine_specs' = st.free_replica_machine_specs
           /\ containers' = st.containers
           /\ outcome' = [op |-> "rm", raised |-> st.raised,
                          written |-> IF st.raised = "" /\ st.found = 0
                                      THEN "Machine not found" ELSE "",
                          found |-> st.found]
    /\ UNCHANGED <<pc, args, routing, network, n_machines, ready, pulled, config,
                   call, threads, awaits, net_ops, provision>>

-----------------------------------------------------------------------------
(* Routing: _get_machine_by_address, _update_routing_info, console_routing *)

\* an address string "host:port" of a routing table, by its two parts
Wire(host, port) == [host |-> host, port_number |-> port]

\* Address.parse
Address_parse(a) == <<a.host, a.port_number>>

\* the first machine (or None value) whose spec has the bolt address; None when there is none
_get_machine_by_address(d, addr) ==
    IF \E i \in DOMAIN d : bolt_address(d[i].spec) = addr
    THEN d[CHOOSE i \in DOMAIN d :
                /\ bolt_address(d[i].spec) = addr
                /\ \A j \in 1..(i - 1) : bolt_address(d[j].spec) # addr].machine
    ELSE None

\* the addresses assigned to role by the loop over server_lists: a later entry replaces an earlier one
RECURSIVE RoleAddresses(_, _)
RoleAddresses(server_lists, role) ==
    IF server_lists = <<>> THEN <<>>
    ELSE LET last == server_lists[Len(server_lists)]
         IN  IF last.role = role
             THEN [i \in DOMAIN last.addresses |-> Address_parse(last.addresses[i])]
             ELSE RoleAddresses(SubSeq(server_lists, 1, Len(server_lists) - 1), role)

Resolve(d, addrs) == [i \in DOMAIN addrs |-> _get_machine_by_address(d, addrs[i])]

Cache == [_routers |-> _routers, _readers |-> _readers, _writers |-> _writers, _ttl |-> _ttl]

\* _update_routing_info assigning the cache before it looks at the rows
_update_routing_info_AssignFirst(cx_ok, records) ==
    IF In(None, routers.value) THEN [raised |-> "AttributeError: addresses", cache |-> Cache]
    ELSE IF ~cx_ok THEN [raised |-> "OSError", cache |-> Cache]
    ELSE IF records = <<>>
    THEN [raised |-> "RuntimeError",
          cache |-> [_routers |-> List(<<>>), _readers |-> List(<<>>),
                     _writers |-> List(<<>>), _ttl |-> NoTtl]]
    ELSE LET ttl == records[1].ttl
             server_lists == records[1].server_lists
         IN  [raised |-> "",
              cache |-> [_routers |-> List(Resolve(machines, RoleAddresses(server_lists, "ROUTE"))),
                         _readers |-> List(Resolve(machines, RoleAddresses(server_lists, "READ"))),
                         _writers |-> List(Resolve(machines, RoleAddresses(server_lists, "WRITE"))),
                         _ttl |-> Ttl(ttl)]]

\* cx_ok: Connection.open succeeds; records: the rows pulled
_update_routing_info(cx_ok, records) ==
    IF In(None, routers.value) THEN [raised |-> "AttributeError: addresses", cache |-> Cache]
    ELSE IF ~cx_ok THEN [raised |-> "OSError", cache |-> Cache]
    ELSE IF records = <<>> THEN [raised |-> "RuntimeError", cache |-> Cache]
    ELSE LET ttl == records[1].ttl
             server_lists == records[1].server_lists
         IN  [raised |-> "",
              cache |-> [_routers |-> List(Resolve(machines, RoleAddresses(server_lists, "ROUTE"))),
                         _readers |-> List(Resolve(machines, RoleAddresses(server_lists, "READ"))),
                         _writers |-> List(Resolve(machines, RoleAddresses(server_lists, "WRITE"))),
                         _ttl |-> Ttl(ttl)]]

\* the routing tables a server answers with, for a cluster on the default ports
Table(route, read, write) ==
    [ttl |-> 300,
     server_lists |-> <<[role |-> "ROUTE", addresses |-> route],
                        [role |-> "WRITE", addresses |-> write],
                        [role |-> "READ", addresses |-> read]>>]

L(port) == Wire("localhost", port)

Records ==
    { <<>>,
      <<Table(<<L(17601), L(17602)>>, <<L(17603)>>, <<L(17601)>>)>>,
      <<Table(<<L(17601), L(9999)>>, <<L(17610)>>, <<L(9999)>>)>>,
      <<Table(<<L(17607)>>, <<L(17601), L(17607)>>, <<L(17601)>>)>> }

console_routing(cx_ok, records) ==
    /\ pc = "cluster"
    /\ n_commands < MaxCommands
    /\ n_commands' = n_commands + 1
    /\ console_args' = <<"rt">>
    \* a connection needs an address to connect to
    /\ cx_ok => routers.value # <<>>
    /\ LET res == _update_routing_info(cx_ok, records)
           c == res.cache
       IN  /\ _routers' = c._routers
           /\ _readers' = c._readers
           /\ _writers' = c._writers
           /\ _ttl' = c._ttl
           /\ pulled' = IF res.raised \in {"AttributeError: addresses", "OSError"} THEN NoQuery
                        ELSE [ran |-> TRUE, records |-> records]
           /\ outcome' =
                IF res.raised = "RuntimeError"
                THEN [op |-> "rt", raised |-> "", written |-> "Cannot obtain routing information", found |-> 0]
                ELSE IF res.raised # ""
                THEN [op |-> "rt", raised |-> res.raised, written |-> "", found |-> 0]
                ELSE IF In(None, c._routers.items \o c._readers.items \o c._writers.items)
                THEN [op |-> "rt", raised |-> "AttributeError: address", written |-> "", found |-> 0]
                ELSE [op |-> "rt", raised |-> "", written |-> "Routers Readers Writers TTL", found |-> 0]
    /\ UNCHANGED <<pc, args, pools, network, n_machines, ready, config, calls>>

-----------------------------------------------------------------------------
(* console: one turn of the while loop for a line that reaches no handler. *)
(* cargs is shlex_split of the line read.                                  *)

\* the keys of self.console_index after _update_console_index
console_index ==
    {"env", "exit", "help", "logs", "ls", "ping", "rt"}
        \cup (IF pc = "cluster" THEN {"add-core", "add-replica", "rm"} ELSE {})

\* the lookup raising IndexError for a name that is not a key
Lookup_IndexErrorForUnknown(cargs) ==
    IF cargs = <<>> \/ cargs[1] \notin console_index THEN "IndexError" ELSE ""

\* self.console_index[self.console_args[0]]: what the lookup raises
Lookup(cargs) ==
    IF cargs = <<>> THEN "IndexError"
    ELSE IF cargs[1] \notin console_index THEN "KeyError"
    ELSE ""

console(cargs) ==
    /\ pc = "cluster"
    /\ n_commands < MaxCommands
    /\ Lookup(cargs) # ""
    /\ n_commands' = n_commands + 1
    /\ console_args' = cargs
    /\ outcome' = IF Lookup(cargs) = "KeyError"
                  THEN [op |-> "console", raised |-> "", written |-> "ERROR!", found |-> 0]
                  ELSE [op |-> "console", raised |-> Lookup(cargs), written |-> "", found |-> 0]
    /\ UNCHANGED <<pc, args, pools, routing, network, n_machines, ready, pulled, config, calls>>

\* the lines read that reach no handler: an empty line and three unregistered names
Lines == {<<>>, <<"start">>, <<"RM", "a">>, <<"add", "core">>}

-----------------------------------------------------------------------------
(* start(), await_started() and stop() of the service step by step: the    *)
(* calling thread and the threads _for_each_machine starts.  call.op is    *)
(* the method whose fan-out is in progress and call.i the position in      *)
(* self.machines.items() the for loop has reached.                         *)

\* the value of f(machine) that _for_each_machine hands to Thread as target:
\* the bound method for start and stop; wait(machine) returns None
Target(op) ==
    CASE op = "start" -> "start"
      [] op = "stop" -> "stop"
      [] op = "await_started" -> "None"

\* evaluating f(machine) runs machine.await_started in the calling thread
RunsInCaller(op) == op = "await_started"

\* no thread of the list is waited for
Joined_NoWait(list) == TRUE

\* the loop of thread.join() has passed every thread of the list
Joined(list) == \A k \in DOMAIN list : list[k].state = "finished"

\* the machine at the position the for loop has reached
Current == machines[call.i].machine.id

\* the for loop moves to the next item, or to the joins after the last one
Advance == [call EXCEPT !.at = IF call.i = Len(machines) THEN "join" ELSE "spawn",
                        !.i = call.i + 1]

\* where the for loop of _for_each_machine begins: at its first item, or
\* at the joins when self.machines has no item
Enter == IF machines = <<>> THEN "join" ELSE "spawn"

\* Neo4jService.start up to the fan-out: the network is created
service_start(timeout) ==
    /\ pc = "cluster"
    /\ call.at = "idle"
    /\ network = "None"
    /\ network' = "created"
    /\ net_ops' = [net_ops EXCEPT !.create = @ + 1]
    /\ call' = [op |-> "start", at |-> Enter, i |-> 1, timeout |-> timeout]
    /\ threads' = <<>>
    /\ UNCHANGED <<pc, args, pools, routing, n_machines, ready, console_args, outcome,
                   pulled, n_commands, config, provision, awaits, containers>>

\* one turn of the for loop for start and stop: Thread(target=f(machine)), thread.start()
Thread_start ==
    /\ call.at = "spawn"
    /\ ~RunsInCaller(call.op)
    /\ threads' = Append(threads, [target |-> Target(call.op), machine |-> Current,
                                   state |-> "started"])
    /\ call' = Advance
    /\ UNCHANGED <<pc, args, pools, routing, network, n_machines, ready, console_args,
                   outcome, pulled, n_commands, config, provision, awaits, containers, net_ops>>

\* one turn of the for loop for await_started: f(machine) enters machine.await_started
wait_begin ==
    /\ call.at = "spawn"
    /\ RunsInCaller(call.op)
    /\ awaits' = [awaits EXCEPT ![Current] = [state |-> "in progress", by |-> "caller",
                                              probe |-> ""]]
    /\ call' = [call EXCEPT !.at = "f"]
    /\ UNCHANGED <<pc, args, pools, routing, network, n_machines, ready, console_args,
                   outcome, pulled, n_commands, config, provision, threads, containers, net_ops>>

\* machine.await_started returns to wait, wait returns None, and the thread
\* with no target is started.  A container that was never started is not running.
wait_end(probe) ==
    /\ call.at = "f"
    /\ containers[Current].status # "running" => probe = "not_running"
    /\ ready' = [ready EXCEPT ![Current] = await_started(@, probe)]
    /\ awaits' = [awaits EXCEPT ![Current] = [state |-> "done", by |-> "caller",
                                              probe |-> probe]]
    /\ threads' = Append(threads, [target |-> Target(call.op), machine |-> Current,
                                   state |-> "started"])
    /\ call' = Advance
    /\ UNCHANGED <<pc, args, pools, routing, network, n_machines, console_args,
                   outcome, pulled, n_commands, config, provision, containers, net_ops>>

\* the joins are over: start goes on to await_started or returns,
\* await_started tests all(...) and stop removes the network
_for_each_machine_join ==
    /\ call.at = "join"
    /\ Joined(threads)
    /\ CASE call.op = "start" ->
              /\ IF call.timeout
                 THEN /\ call' = [call EXCEPT !.op = "await_started", !.at = Enter, !.i = 1]
                      /\ threads' = <<>>
                      /\ UNCHANGED outcome
                 ELSE /\ call' = [call EXCEPT !.at = "returned"]
                      /\ outcome' = [op |-> "start", raised |-> "", written |-> "", found |-> 0]
                      /\ UNCHANGED threads
              /\ UNCHANGED net_ops
         [] call.op = "await_started" ->
              /\ call' = [call EXCEPT !.op = "start",
                                      !.at = IF AllReady(machines, ready)
                                             THEN "returned" ELSE "raised"]
              /\ outcome' = [op |-> "start",
                             raised |-> IF AllReady(machines, ready) THEN "" ELSE "OSError",
                             written |-> "", found |-> 0]
              /\ UNCHANGED <<threads, net_ops>>
         [] call.op = "stop" ->
              /\ net_ops' = [net_ops EXCEPT !.remove = @ + 1]
              /\ call' = [call EXCEPT !.at = "returned"]
              /\ outcome' = [op |-> "stop", raised |-> "", written |-> "", found |-> 0]
              /\ UNCHANGED threads
    /\ UNCHANGED <<pc, args, pools, routing, network, n_machines, ready, console_args,
                   pulled, n_commands, config, provision, awaits, containers>>

\* Neo4jService.stop, called after start has returned or raised
service_stop ==
    /\ call.op = "start"
    /\ call.at \in {"returned", "raised"}
    /\ call' = [call EXCEPT !.op = "stop", !.at = Enter, !.i = 1]
    /\ threads' = <<>>
    /\ UNCHANGED <<pc, args, pools, routing, network, n_machines, ready, console_args,
                   outcome, pulled, n_commands, config, provision, awaits, containers, net_ops>>

\* thread k runs its target up to the container call: container.start() of
\* Neo4jMachine.start, container.stop() of Neo4jMachine.stop.  ok tells
\* whether the call returns; an exception ends the thread.
Thread_run(k, ok) ==
    /\ threads[k].state = "started"
    /\ LET id == threads[k].machine
           c == containers[id]
       IN  CASE threads[k].target = "None" ->
                  /\ ok
                  /\ threads' = [threads EXCEPT ![k].state = "finished"]
                  /\ UNCHANGED containers
             [] threads[k].target = "start" ->
                  /\ threads' = [threads EXCEPT ![k].state = IF ok THEN "running" ELSE "finished"]
                  /\ containers' = [containers EXCEPT ![id] =
                        [c EXCEPT !.starts = @ + 1,
                                  !.status = IF ok THEN "running" ELSE c.status,
                                  !.busy = IF ok THEN "start" ELSE ""]]
             [] threads[k].target = "stop" ->
                  /\ threads' = [threads EXCEPT ![k].state = IF ok THEN "running" ELSE "finished"]
                  /\ containers' = [containers EXCEPT ![id] =
                        [c EXCEPT !.stops = @ + 1,
                                  !.status = IF ok THEN "exited" ELSE c.status,
                                  !.busy = IF ok THEN "stop" ELSE ""]]
    /\ UNCHANGED <<pc, args, pools, routing, network, n_machines, ready, console_args,
                   outcome, pulled, n_commands, config, provision, call, awaits, net_ops>>

\* thread k runs the rest of its target: reload() and the address lookup of
\* Neo4jMachine.start, container.remove(force=True) of Neo4jMachine.stop
Thread_finish(k) ==
    /\ threads[k].state = "running"
    /\ threads' = [threads EXCEPT ![k].state = "finished"]
    /\ containers' =
          IF threads[k].target = "stop"
          THEN [containers EXCEPT ![threads[k].machine].removes = @ + 1,
                                  ![threads[k].machine].status = "removed",
                                  ![threads[k].machine].busy = ""]
          ELSE [containers EXCEPT ![threads[k].machine].busy = ""]
    /\ UNCHANGED <<pc, args, pools, routing, network, n_machines, ready, console_args,
                   outcome, pulled, n_commands, config, provision, call, awaits, net_ops>>

\* a cluster of the least size, constructed
InitThreads ==
    LET a == Args(min_cores, min_replicas, 0, 0, max_cores, max_replicas)
    IN  Constructed(a, Neo4jService(a))

NextThreads ==
    \/ \E timeout \in BOOLEAN : service_start(timeout)
    \/ Thread_start
    \/ wait_begin
    \/ \E probe \in Probes : wait_end(probe)
    \/ _for_each_machine_join
    \/ service_stop
    \/ \E k \in DOMAIN threads, ok \in BOOLEAN : Thread_run(k, ok)
    \/ \E k \in DOMAIN threads : Thread_finish(k)

SpecThreads == InitThreads /\ [][NextThreads]_vars

-----------------------------------------------------------------------------
(* The service after construction, under any sequence of operations *)

\* the names given to rm
RmNames == {"a", "d", "g", "0", "a." \o service_name, "r", "w", "x"}

Init ==
    \E shape \in {<<min_cores, min_replicas>>, <<max_cores, max_replicas>>} :
        LET a == Args(shape[1], shape[2], 0, 0, max_cores, max_replicas)
        IN  Constructed(a, Neo4jService(a))

Next ==
    \/ \E bad \in 0..1, probe \in Probes : start(bad, probe)
    \/ \E fail_at \in 0..MaxFailAt, probe \in Probes :
          /\ fail_at <= NoneRank(machines, Len(machines)) + 1
          /\ fail_at # 0 => probe = "ok"
          /\ console_add_core(fail_at, probe)
    \/ \E fail_at \in 0..MaxFailAt, probe \in Probes :
          /\ fail_at <= NoneRank(machines, Len(machines)) + 1
          /\ fail_at # 0 => probe = "ok"
          /\ console_add_replica(fail_at, probe)
    \/ \E name \in RmNames, fail_at \in 0..MaxFailAt :
          /\ fail_at <= MatchCount(name)
          /\ console_remove(name, fail_at)
    \/ \E cx_ok \in BOOLEAN, records \in Records : console_routing(cx_ok, records)
    \/ \E cargs \in Lines : console(cargs)

Spec == Init /\ [][Next]_vars


-----------------------------------------------------------------------------
(* The service as a context manager: __enter__ starts it, the console      *)
(* commands run in the body of the with statement, __exit__ stops it.      *)

\* start has returned and no command has raised: the body of the with
\* statement is running
Serving == call.op = "start" /\ call.at = "returned" /\ outcome.raised = ""

\* routing tables of a cluster on the default ports; in the second one
\* machine a is a router, a reader and a writer
SweepRecords ==
    { <<Table(<<L(17601), L(17602)>>, <<L(17603)>>, <<L(17601)>>)>>,
      <<Table(<<L(17601)>>, <<L(17601), L(17602)>>, <<L(17601), L(17603)>>)>> }

SweepNames == {"a", "c", "a." \o service_name, "r", "w", "x"}

NextSweep ==
    \/ service_start(TRUE)
    \/ Thread_start
    \/ wait_begin
    \/ \E probe \in Probes : wait_end(probe)
    \/ _for_each_machine_join
    \/ service_stop
    \/ \E k \in DOMAIN threads, ok \in BOOLEAN : Thread_run(k, ok)
    \/ \E k \in DOMAIN threads : Thread_finish(k)
    \/ Serving /\ \E records \in SweepRecords : console_routing(TRUE, records)
    \/ Serving /\ \E name \in SweepNames, fail_at \in 0..MaxFailAt : console_remove(name, fail_at)

SpecSweep == InitThreads /\ [][NextSweep]_vars
-----------------------------------------------------------------------------
(* Properties *)

Count(seq, x) == Cardinality({i \in DOMAIN seq : seq[i] = x})

\* every spec the service holds: the keys of machines, then the two free pools
AllSpecs == Keys(machines) \o free_core_machine_specs \o free_replica_machine_specs

CoreSpecSet == {s \in Range(AllSpecs) : isCore(s)}
ReplicaSpecSet == {s \in Range(AllSpecs) : isReplica(s)}

\* the specs __init__ generated for this service
GeneratedCores ==
    Range(CoreSpecs(service_name,
                    PyOr(args.bolt_port, cluster_default_bolt_port),
                    PyOr(args.http_port, cluster_default_http_port),
                    args.max_cores))
GeneratedReplicas ==
    Range(ReplicaSpecs(service_name,
                       PyOr(args.bolt_port, cluster_default_bolt_port),
                       PyOr(args.http_port, cluster_default_http_port),
                       args.max_cores, args.max_replicas))

\* C1 (as claimed): in every state of a cluster, min_cores <= |cores| <= max_cores and
\* min_replicas <= |replicas| <= max_replicas.  rm removes cores without regard to min_cores.
C1_CountsWithinBounds ==
    pc = "cluster" =>
        /\ min_cores <= Len(cores) /\ Len(cores) <= max_cores
        /\ min_replicas <= Len(replicas) /\ Len(replicas) <= max_replicas

\* C2 (as claimed): every generated spec is in exactly one of the machines mapping and the
\* free pool of its own role, also after an rm whose container stop raises.
C2_SpecsPartition ==
    pc = "cluster" =>
        /\ \A s \in GeneratedCores :
              /\ Count(Keys(machines), s) + Count(free_core_machine_specs, s) = 1
              /\ Count(free_replica_machine_specs, s) = 0
        /\ \A s \in GeneratedReplicas :
              /\ Count(Keys(machines), s) + Count(free_replica_machine_specs, s) = 1
              /\ Count(free_core_machine_specs, s) = 0

\* C3: for every base bolt port, base http port and ceilings up to 7 cores and 10 replicas,
\* no two of the specs generated for one cluster have the same bolt port, the same http port
\* or the same fully-qualified name.
C3_UniquePortsAndNames ==
    pc = "cluster" =>
        /\ Len(AllSpecs) = args.max_cores + args.max_replicas
        /\ \A i, j \in DOMAIN AllSpecs :
              i < j => /\ AllSpecs[i].bolt_port # AllSpecs[j].bolt_port
                       /\ AllSpecs[i].http_port # AllSpecs[j].http_port
                       /\ fq_name(AllSpecs[i]) # fq_name(AllSpecs[j])

\* a cluster with the full ceilings on caller-supplied base ports
C3_Witness ==
    /\ pc = "cluster"
    /\ args.max_cores = max_cores /\ args.max_replicas = max_replicas
    /\ args.bolt_port # 0 /\ args.http_port # 0
    /\ Len(AllSpecs) = max_cores + max_replicas
    /\ Len(free_replica_machine_specs) = max_replicas

\* C4 (as claimed): no port number assigned to a replica spec, bolt or http, is assigned to
\* a core spec, bolt or http.
C4_NoReplicaPortIsCorePort ==
    pc = "cluster" =>
        \A r \in ReplicaSpecSet, c \in CoreSpecSet :
            {r.bolt_port, r.http_port} \cap {c.bolt_port, c.http_port} = {}

\* C4 (amended): no replica bolt port is a core bolt port and no replica http port is a core
\* http port.
C4_SameProtocolRangesDisjoint ==
    pc = "cluster" =>
        \A r \in ReplicaSpecSet, c \in CoreSpecSet :
            r.bolt_port # c.bolt_port /\ r.http_port # c.http_port

\* caller-supplied bases where a replica bolt port is a core http port
C4_Witness ==
    /\ pc = "cluster"
    /\ args.bolt_port # 0 /\ args.http_port # 0
    /\ \E r \in ReplicaSpecSet, c \in CoreSpecSet : r.bolt_port = c.http_port

\* a step of the console command cmd
Command(cmd) == console_args' = cmd /\ n_commands' = n_commands + 1

\* C5 (as claimed): add-core followed by rm of the spec just allocated returns the free core
\* pool to its size and member set before the add, and the active specs to their set before
\* the add.  Before the rm, the pool lacks exactly that spec and the active specs have it in
\* addition.
C5_AddThenRemoveRestores ==
    [][(/\ outcome.op = "add-core"
        /\ outcome.written = "Added core server"
        /\ Command(<<"rm", machines[Len(machines)].spec.name>>))
       => LET spec == machines[Len(machines)].spec
          IN  /\ Range(free_core_machine_specs') = Range(free_core_machine_specs) \cup {spec}
              /\ Len(free_core_machine_specs') = Len(free_core_machine_specs) + 1
              /\ Range(Keys(machines')) = Range(Keys(machines)) \ {spec}]_vars

\* C6 (as claimed): after start of a 3-core, 0-replica cluster with every probe succeeding and
\* before any routing resolution, routers is the list of all machines and readers and writers
\* are each the empty list.  readers and writers raise TypeError on the absent cache.
C6_ReadsBeforeResolve ==
    (/\ pc = "cluster" /\ args.n_cores = 3 /\ args.n_replicas = 0
     /\ n_commands = 0
     /\ outcome.op = "start" /\ outcome.raised = ""
     /\ _routers.isNone /\ _readers.isNone /\ _writers.isNone)
    => /\ routers = Return(MachineValues(machines))
       /\ readers = Return(<<>>)
       /\ writers = Return(<<>>)

\* the rt command pulled a row and cached it
ResolveSucceeded == Command(<<"rt">>) /\ pulled'.ran /\ pulled'.records # <<>>

Tracked(d, addr) == \E i \in DOMAIN d : bolt_address(d[i].spec) = addr

OnlyMatchingMachines(list, addrs) ==
    /\ ~list.isNone
    /\ Len(list.items) = Cardinality({j \in DOMAIN addrs : Tracked(machines, addrs[j])})
    /\ \A i \in DOMAIN list.items :
          /\ list.items[i] # None
          /\ In(list.items[i], MachineValues(machines))
          /\ In(address(list.items[i]), addrs)

\* C7 (as claimed): after a successful resolution each cached list holds only tracked machines
\* whose bolt address is an address of its role entry, and an address of no tracked machine
\* contributes no element, not even None.  The code keeps a None for such an address.
C7_OnlyMatchingMachinesCached ==
    [][ResolveSucceeded
       => LET server_lists == pulled'.records[1].server_lists
          IN  /\ OnlyMatchingMachines(_routers', RoleAddresses(server_lists, "ROUTE"))
              /\ OnlyMatchingMachines(_readers', RoleAddresses(server_lists, "READ"))
              /\ OnlyMatchingMachines(_writers', RoleAddresses(server_lists, "WRITE"))]_vars

\* C8: a routing resolution that pulls zero rows fails with the "no routing information"
\* condition and leaves the cached routers, readers, writers and ttl as they were, absent or
\* resolved.
C8_EmptyResultKeepsCache ==
    [][(Command(<<"rt">>) /\ pulled'.ran /\ pulled'.records = <<>>)
       => /\ outcome'.written = "Cannot obtain routing information"
          /\ outcome'.raised = ""
          /\ _routers' = _routers /\ _readers' = _readers
          /\ _writers' = _writers /\ _ttl' = _ttl]_vars

\* zero rows pulled with a cache resolved earlier
C8_Witness ==
    /\ console_args = <<"rt">>
    /\ pulled.ran /\ pulled.records = <<>>
    /\ outcome.written = "Cannot obtain routing information"
    /\ ~_routers.isNone /\ ~_readers.isNone /\ ~_writers.isNone /\ ~_ttl.isNone

\* C9: while the routing cache is absent, rm r and rm w remove no machine, leave the machines
\* mapping and both free pools unchanged and raise nothing.
C9_RoleRemoveOnAbsentCache ==
    [][(/\ Command(<<"rm", "r">>) \/ Command(<<"rm", "w">>)
        /\ _routers.isNone /\ _readers.isNone /\ _writers.isNone)
       => /\ machines' = machines
          /\ free_core_machine_specs' = free_core_machine_specs
          /\ free_replica_machine_specs' = free_replica_machine_specs
          /\ outcome'.found = 0
          /\ outcome'.raised = ""]_vars

\* rm w performed on a cluster whose cache is absent
C9_Witness ==
    /\ console_args = <<"rm", "w">>
    /\ outcome.op = "rm" /\ outcome.found = 0 /\ outcome.raised = ""
    /\ _routers.isNone /\ _readers.isNone /\ _writers.isNone
    /\ Len(machines) >= min_cores

\* C10: constructing a cluster with N cores (3..7) and M replicas (0..10) succeeds with the first
\* N core specs (a, b, ...) and the first M replica specs (0, 1, ...) as its N + M machines, and
\* leaves the other max_cores - N core specs and max_replicas - M replica specs free.
C10_ConstructedShape ==
    (pc # "new" /\ args.n_cores \in min_cores..max_cores
                /\ args.n_replicas \in min_replicas..max_replicas) =>
        LET N == args.n_cores
            M == args.n_replicas
        IN  /\ pc = "cluster"
            /\ Len(machines) = N + M
            /\ \A i \in 1..N : /\ isCore(machines[i].spec)
                               /\ machines[i].spec.name = chr(96 + i)
                               /\ machines[i].machine # None
            /\ \A i \in 1..M : /\ isReplica(machines[N + i].spec)
                               /\ machines[N + i].spec.name = chr(47 + i)
                               /\ machines[N + i].machine # None
            /\ Len(free_core_machine_specs) = max_cores - N
            /\ \A i \in 1..(max_cores - N) : /\ isCore(free_core_machine_specs[i])
                                            /\ free_core_machine_specs[i].name = chr(96 + N + i)
            /\ Len(free_replica_machine_specs) = max_replicas - M
            /\ \A i \in 1..(max_replicas - M) : /\ isReplica(free_replica_machine_specs[i])
                                               /\ free_replica_machine_specs[i].name = chr(47 + M + i)

\* n_cores=3, n_replicas=1: 4 machines, 4 free cores, 9 free replicas
C10_Witness ==
    /\ pc = "cluster"
    /\ args.n_cores = 3 /\ args.n_replicas = 1
    /\ Len(machines) = 4
    /\ Len(free_core_machine_specs) = 4
    /\ Len(free_replica_machine_specs) = 9

-----------------------------------------------------------------------------
(* C11: counts outside the permitted ranges                                *)

OutOfRange ==
    \/ args.n_cores \notin min_cores..max_cores
    \/ args.n_replicas \notin min_replicas..max_replicas

\* C11 as stated: construction with a requested core count outside [3, 7] or
\* a requested replica count outside [0, 10] always fails with ValueError and
\* produces no topology with machines, cluster or standalone.
C11_OutOfRangeAlwaysFails ==
    (pc # "new" /\ OutOfRange) => (pc = "ValueError" /\ machines = <<>>)

\* C11 amended: with a non-zero requested core count, a core count outside
\* [3, 7] or a replica count outside [0, 10] fails with ValueError and
\* produces no machines; a core count of zero (or none) selects the
\* standalone topology with its one machine, whatever the replica count.
C11_ClusterRequestOutOfRangeFails ==
    pc # "new" =>
        /\ (args.n_cores # 0 /\ OutOfRange) => (pc = "ValueError" /\ machines = <<>>)
        /\ args.n_cores = 0 => (pc = "standalone" /\ Len(machines) = 1)

C11_Witness ==
    /\ pc = "ValueError" /\ machines = <<>>
    /\ args.n_cores = min_cores /\ args.n_replicas = max_replicas + 1

-----------------------------------------------------------------------------
(* C13: add with an exhausted pool                                         *)

CapacityError(what) ==
    /\ outcome'.raised = ""
    /\ outcome'.written = "A maximum of " \o what \o " is permitted"
    /\ UNCHANGED <<machines, free_core_machine_specs, free_replica_machine_specs,
                   config, n_machines, ready>>

\* C13: add-core (add-replica) invoked while the core (replica) free pool is
\* exhausted reports the capacity error inline and changes nothing: the
\* machines mapping, both pools and every config stay as they were and no
\* container is created; so a command that is not rejected finds its pool
\* non-empty.
C13_ExhaustedPoolIsRejected ==
    [][/\ (Command(<<"add-core">>) /\ free_core_machine_specs = <<>>)
            => CapacityError("cores")
       /\ (Command(<<"add-replica">>) /\ free_replica_machine_specs = <<>>)
            => CapacityError("replicas")]_vars

-----------------------------------------------------------------------------
(* C14: a line naming no registered command                                *)

\* C14: for every line read by the console loop whose command name is not a
\* registered command, no error leaves the dispatcher: the error line is
\* written, the machines mapping, the pools, the routing cache, the configs
\* and the network are unchanged, and the loop goes on to the next line.
C14_UnknownCommandReported ==
    [][(/\ n_commands' = n_commands + 1
        /\ console_args' # <<>>
        /\ console_args'[1] \notin console_index)
       => /\ outcome'.raised = ""
          /\ outcome'.written = "ERROR!"
          /\ UNCHANGED <<pc, pools, routing, network, n_machines, ready, config>>]_vars

C14_Witness ==
    /\ console_args = <<"RM", "a">>
    /\ outcome = [op |-> "console", raised |-> "", written |-> "ERROR!", found |-> 0]
    /\ n_commands = MaxCommands

-----------------------------------------------------------------------------
(* C15: a failed routing resolution                                        *)

\* the rt command pulled zero rows
EmptyResult == Command(<<"rt">>) /\ pulled'.ran /\ pulled'.records = <<>>

\* the rt command had addresses to connect to and no query ran: the connection failed
TransportFailure == Command(<<"rt">>) /\ ~pulled'.ran /\ ~In(None, routers.value)

\* C15: when the routing resolution of the rt command fails, by an empty
\* result set or by a transport failure of the connection, the failure is
\* reported as recoverable: nothing is raised out of the command, so the
\* dispatch loop goes on, and the cached routers, readers, writers and ttl
\* are unchanged.
C15_ResolutionFailureRecoverable ==
    [][(EmptyResult \/ TransportFailure)
       => /\ outcome'.raised = ""
          /\ _routers' = _routers /\ _readers' = _readers
          /\ _writers' = _writers /\ _ttl' = _ttl]_vars

-----------------------------------------------------------------------------
(* C19: the discovery members stamped by an add                            *)

\* the discovery addresses of the Core specs that are keys of d, joined
CoreMembers(d) ==
    LET core_slots == cores_of(d)
    IN  join([i \in DOMAIN core_slots |-> fq_name(core_slots[i].spec) \o ":5000"])

\* spec has a Machine in the mapping
Provisioned(spec) == HasKey(machines, spec) /\ DictGet(machines, spec) # None

\* the add command that reserves spec from its pool
Reserves(spec) ==
    \/ /\ Command(<<"add-core">>) /\ free_core_machine_specs # <<>>
       /\ spec = Head(free_core_machine_specs) /\ HasKey(machines', spec)
    \/ /\ Command(<<"add-replica">>) /\ free_replica_machine_specs # <<>>
       /\ spec = Head(free_replica_machine_specs) /\ HasKey(machines', spec)

\* C19: on add-core and add-replica the initial_discovery_members stamped
\* into the newly reserved spec, once its Machine is made, is the list of
\* discovery addresses of all Core specs then in the machines mapping, a
\* core just reserved included; the config of every spec that already has a
\* Machine and of every spec still in a free pool is unchanged.
C19_DiscoveryMembersStamped ==
    [][\A spec \in DOMAIN config :
        Reserves(spec)
        => /\ DictGet(machines', spec) # None
                => /\ initial_discovery_members \in DOMAIN config'[spec]
                   /\ config'[spec][initial_discovery_members] = CoreMembers(machines')
           /\ \A other \in DOMAIN config :
                (\/ Provisioned(other)
                 \/ In(other, free_core_machine_specs')
                 \/ In(other, free_replica_machine_specs'))
                => config'[other] = config[other]]_vars

\* a core added to three running cores: its members list names four cores,
\* the list of the first core still names three
C19_Witness ==
    /\ outcome.op = "add-core" /\ outcome.written = "Added core server"
    /\ Len(machines) = min_cores + 1
    /\ config[machines[Len(machines)].spec][initial_discovery_members] = CoreMembers(machines)
    /\ config[machines[1].spec][initial_discovery_members]
         = CoreMembers(SubSeq(machines, 1, min_cores))

-----------------------------------------------------------------------------
(* C20: the config of a constructed spec                                   *)

\* the keys the spec classes and _boot_machines set themselves
ClassKeys ==
    {"dbms.mode", initial_discovery_members,
     "causal_clustering.minimum_core_cluster_size_at_formation",
     "causal_clustering.minimum_core_cluster_size_at_runtime"}

\* C20: for every machine spec constructed with any caller override mapping,
\* one holding the bolt advertised_address key included, the config is the
\* base config merged with the overrides, the overrides winning over base
\* values, and its bolt advertised_address is localhost:<bolt_port> of the spec.
C20_OverridesMergedAddressForced ==
    \A spec \in DOMAIN config :
        LET c == config[spec]
        IN  /\ c[advertised_address] = "localhost:" \o ToString(spec.bolt_port)
            /\ \A k \in DOMAIN args.config \ {advertised_address} : c[k] = args.config[k]
            /\ \A k \in DOMAIN base_config \ DOMAIN args.config : c[k] = base_config[k]
            /\ DOMAIN c \ ClassKeys
                 = DOMAIN base_config \cup DOMAIN args.config \cup {advertised_address}

-----------------------------------------------------------------------------
(* C12, C16, C17, C18: start, await_started and stop of the service        *)

\* the call start(timeout=300) has ended
StartEnded == call.op = "start" /\ call.timeout /\ call.at \in {"returned", "raised"}

EveryReady == \A i \in DOMAIN machines : ready[machines[i].machine.id] = 1

\* C12: start(timeout) with a timeout returns successfully only if every
\* machine's ready is 1 after the await fan-out; if any machine is not ready
\* start raises, and then start has issued no stop and no remove to any
\* container and has not removed the network: started machines stay running.
C12_StartRequiresEveryReady ==
    StartEnded
    => /\ call.at = "returned" <=> EveryReady
       /\ call.at = "returned" <=> outcome.raised = ""
       /\ call.at = "raised"
            => /\ outcome.raised = "OSError"
               /\ \A id \in DOMAIN containers :
                    containers[id].stops = 0 /\ containers[id].removes = 0
               /\ net_ops.remove = 0

\* start has raised with one machine ready and running, another not ready
C12_Witness ==
    /\ StartEnded /\ call.at = "raised"
    /\ \E id \in DOMAIN containers : ready[id] = 1 /\ containers[id].status = "running"
    /\ \E id \in DOMAIN containers : ready[id] = -1

\* C16: after a machine's await_started returns, ready is 1 if and only if
\* the container was running and the probe succeeded; in every other case,
\* not running, probe failed and container exited, probe failed and
\* container still running, ready is -1 and is never left at 0.
C16_ReadyOrFailedAfterAwait ==
    \A id \in DOMAIN awaits :
        awaits[id].state = "done"
        => ready[id] = IF awaits[id].probe = "ok" THEN 1 ELSE -1

\* C17: the await step of the service is a concurrent fan-out: each
\* machine's await_started runs in a unit of work of its own, not in the
\* calling thread, so that the waits of two machines can be in progress
\* together; and every wait is over when the service's await returns.
C17_AwaitRunsPerMachineUnit ==
    /\ \A id \in DOMAIN awaits :
            awaits[id].state = "in progress" => awaits[id].by # "caller"
    /\ StartEnded => \A id \in DOMAIN awaits : awaits[id].state = "done"

\* start's fan-out is over
PastStartFanOut ==
    \/ call.op \in {"await_started", "stop"}
    \/ call.op = "start" /\ call.at \in {"returned", "raised"}

\* C18: under every interleaving of the per-machine threads, the network is
\* created before any machine's start begins, and start goes past its
\* fan-out only when every machine's start has been issued and is over; the
\* network is removed only when a stop has been issued to every machine and
\* every machine's stop is over, a failed one included; the network is
\* created once by start and removed once by stop, by the service alone.
C18_NetworkBracketsMachines ==
    /\ \A id \in DOMAIN containers : containers[id].starts > 0 => net_ops.create = 1
    /\ PastStartFanOut
         => \A id \in DOMAIN containers :
                containers[id].starts = 1 /\ containers[id].busy # "start"
    /\ net_ops.remove > 0
         => \A id \in DOMAIN containers :
                containers[id].stops = 1 /\ containers[id].busy # "stop"
    /\ net_ops.create = IF call.at = "idle" THEN 0 ELSE 1
    /\ net_ops.remove = IF call.op = "stop" /\ call.at = "returned" THEN 1 ELSE 0

\* stop has returned, the network removed after one machine's stop had failed
C18_Witness ==
    /\ call.op = "stop" /\ call.at = "returned" /\ net_ops.remove = 1
    /\ \E id \in DOMAIN containers :
            containers[id].stops = 1 /\ containers[id].status = "running"
    /\ \E id \in DOMAIN containers : containers[id].status = "removed"

-----------------------------------------------------------------------------
(* C21: the image pulled once, the creation retried once                   *)

\* the construction recorded at position k of the log has ended
Ended(k) == k < Len(provision.log) \/ provision.at = ""

\* C21: when a Machine's container is created and the image is absent the
\* image is pulled exactly once and the creation retried exactly once; a
\* failure of the pull or of the retried creation leaves the constructor
\* with no further pull or creation, so per Machine the creation is
\* attempted at most twice and the pull at most once.
C21_PullOnceRetryOnce ==
    \A k \in DOMAIN provision.log :
        LET e == provision.log[k]
        IN  /\ e.creates <= 2 /\ e.pulls <= 1
            /\ e.pulls = 1 => e.first = "ImageNotFound"
            /\ e.creates = 2 => e.pulls = 1 /\ e.pull = "ok"
            /\ (Ended(k) /\ e.first = "ImageNotFound")
                 => /\ e.pulls = 1
                    /\ e.pull = "ok" => e.creates = 2
            /\ (e.pull \notin {"", "ok"} \/ e.second \notin {"", "ok"})
                 => /\ k = Len(provision.log) /\ provision.at = ""
                    /\ pc \in (CreateResults \cup PullResults) \ {"ok"}

\* the image was absent, it was pulled, and the retried creation found it absent again
C21_Witness ==
    /\ pc = "ImageNotFound"
    /\ Len(provision.log) = min_cores
    /\ LastLog.creates = 2 /\ LastLog.pulls = 1
    /\ LastLog.first = "ImageNotFound" /\ LastLog.second = "ImageNotFound"

-----------------------------------------------------------------------------
(* C22: the cached routing lists and the machines mapping                  *)

\* the entries of the cached routers, readers and writers
Cached(c) == Range(c._routers.items) \cup Range(c._readers.items) \cup Range(c._writers.items)

\* every entry of the cache is the machine of a key of d
Bound(c, d) == \A m \in Cached(c) : \E i \in DOMAIN d : d[i].machine = m

\* C22 (as claimed): a successful rm keeps every entry of the cached routers, readers and
\* writers a Machine bound in the machines mapping: a machine that rm removes appears in no
\* cached list afterwards.
C22_RemoveKeepsCacheBound ==
    [][(/\ \E name \in RmNames : Command(<<"rm", name>>)
        /\ outcome'.raised = ""
        /\ Bound(Cache, machines))
       => Bound(Cache', machines')]_vars

-----------------------------------------------------------------------------
(* C23: a container is stopped and removed at most once                    *)

\* C23: over the rm commands of a session, by name, by fully qualified name and by role,
\* whatever the cached lists hold, followed by the stop of the service, the container of
\* each machine receives stop at most once and remove at most once.
C23_StoppedAtMostOnce ==
    \A id \in DOMAIN containers :
        containers[id].stops <= 1 /\ containers[id].removes <= 1

\* after a resolution rm w has removed the machines cached as writers, and the stop of
\* the service has stopped and removed the remaining ones: each container once
C23_Witness ==
    /\ call.op = "stop" /\ call.at = "returned"
    /\ n_commands >= 2
    /\ console_args = <<"rm", "w">>
    /\ Len(machines) < n_machines
    /\ \A id \in DOMAIN containers :
          containers[id].stops = 1 /\ containers[id].removes = 1

====
